---- MODULE Spec2Model ----
(***************************************************************************)
(* Event-streaming pipeline of the red-teaming swarm front end:            *)
(*   graph update stream -> Executor.execute_workflow (adapter generator)  *)
(*   -> ExecutorManager.execute_workflow (wrapping generator)              *)
(*   -> WorkflowHandler.execute_workflow_logic (orchestration loop)        *)
(*   -> st.session_state (structured_messages, event_history, agents).     *)
(* One Streamlit session is modelled; its runs are the calls of            *)
(* execute_workflow_logic made by the chat page.  A call is suspended only *)
(* at its await on the graph stream; the sidebar callbacks and further     *)
(* submissions of the session run between two such awaits.  The UI         *)
(* callbacks, the terminal buffer and the cost tracker are left out.       *)
(***************************************************************************)
EXTENDS Integers, Sequences, FiniteSets, TLC

(***************************************************************************)
(* Bounds of the model.                                                    *)
(***************************************************************************)
MaxRuns == 2
MaxTicks == 3
MaxExecutors == 2
MaxTurns == 32
MaxLogLen == 3
MaxReplayClock == 4
MaxPieces == 2
MaxOutputPieces == 3
MaxTerminalLines == 4
MaxCheckpoints == 2

(***************************************************************************)
(* Program constants.                                                      *)
(***************************************************************************)
max_idle_time == 3600
MAX_STRUCTURED_MESSAGES == 20
MAX_EVENT_HISTORY == 50
CheckpointTurns == 30

None == "None"

\* the loop clock is observed one idle window at a time
ClockStep == max_idle_time

Runs == 1..MaxRuns
Executors == 1..MaxExecutors

(***************************************************************************)
(* Messages the execution graph puts last in a node's message list.        *)
(* kind is the concrete class (HumanMessage, AIMessage, ToolMessage, or    *)
(* another BaseMessage such as SystemMessage); id "" is a missing id;      *)
(* tool_calls are the calls an AIMessage requests, each with its id and the *)
(* name of the tool ("" is a missing name).                                *)
(***************************************************************************)
NmapCall == [id |-> "call-1", name |-> "nmap_scan"]

\* usage_metadata of a message: a missing attribute, None and {} are the
\* falsy value NoUsage; a model response reports its token counts
NoUsage == [present |-> FALSE, input_tokens |-> 0, output_tokens |-> 0]
Usage(input_tokens, output_tokens) ==
  [present |-> TRUE, input_tokens |-> input_tokens,
   output_tokens |-> output_tokens]

AiX == [kind |-> "ai", id |-> "", content |-> "x", name |-> "",
        tool_calls |-> <<>>,
        usage_metadata |-> NoUsage]
AiXpad == [kind |-> "ai", id |-> "", content |-> "x ", name |-> "",
           tool_calls |-> <<>>,
           usage_metadata |-> NoUsage]
AiY == [kind |-> "ai", id |-> "", content |-> "[y]", name |-> "",
        tool_calls |-> <<NmapCall>>,
        usage_metadata |-> NoUsage]
AiId == [kind |-> "ai", id |-> "run-1", content |-> "x", name |-> "",
         tool_calls |-> <<>>,
         usage_metadata |-> NoUsage]
AiId2 == [kind |-> "ai", id |-> "run-2", content |-> "x", name |-> "",
          tool_calls |-> <<>>,
          usage_metadata |-> NoUsage]
ToolT == [kind |-> "tool", id |-> "t-1", content |-> "y",
          name |-> "transfer_to_recon", tool_calls |-> <<>>,
          usage_metadata |-> NoUsage]
ToolU == [kind |-> "tool", id |-> "t-2", content |-> "y",
          name |-> "nmap_scan", tool_calls |-> <<>>,
          usage_metadata |-> NoUsage]
HumanX == [kind |-> "human", id |-> "", content |-> "x", name |-> "",
           tool_calls |-> <<>>,
           usage_metadata |-> NoUsage]
SystemX == [kind |-> "other", id |-> "", content |-> "x", name |-> "",
            tool_calls |-> <<>>,
            usage_metadata |-> NoUsage]

\* model responses that report their usage
AiUsage == [kind |-> "ai", id |-> "run-3", content |-> "x", name |-> "",
            tool_calls |-> <<>>,
            usage_metadata |-> Usage(2, 1)]
AiUsage2 == [kind |-> "ai", id |-> "run-4", content |-> "[y]", name |-> "",
             tool_calls |-> <<NmapCall>>,
             usage_metadata |-> Usage(3, 2)]

\* no raw message: the event has no "raw_message" key
NoMessage == [kind |-> None, id |-> "", content |-> "", name |-> "",
              tool_calls |-> <<>>,
              usage_metadata |-> NoUsage]

(***************************************************************************)
(* Namespaces of update ticks: a tuple whose first element is              *)
(* "<agent>:<uuid>"; the root graph reports the empty tuple.               *)
(***************************************************************************)
NsPlanner == <<[prefix |-> "Planner", colon |-> TRUE]>>
NsRecon == <<[prefix |-> "Recon", colon |-> TRUE]>>
NsSummary == <<[prefix |-> "Summary", colon |-> TRUE]>>
NsRoot == <<>>
NsBare == <<[prefix |-> "planner", colon |-> FALSE]>>

(***************************************************************************)
(* Stream items (namespace, node outputs) the graph can deliver; nodes is  *)
(* the list of the last messages of the nodes of the update, in order.     *)
(***************************************************************************)
StreamItems ==
  { [ns |-> NsPlanner, nodes |-> <<AiX, AiY>>],
    [ns |-> NsRecon, nodes |-> <<AiXpad, AiY, ToolT>>],
    [ns |-> NsSummary, nodes |-> <<AiX>>],
    [ns |-> NsBare, nodes |-> <<AiId, HumanX, SystemX, AiId2, ToolU>>] }

UserInputs == {"go"}

(***************************************************************************)
(* src/utils/message.py                                                    *)
(***************************************************************************)
get_agent_name(namespace) ==
  IF namespace = <<>> THEN "Unknown"
  ELSE IF namespace[1].colon THEN namespace[1].prefix
  ELSE "Unknown"

\* str.strip() on the contents of the model
Strip(s) == IF s = "x " THEN "x" ELSE s

\* rich.markup.escape: a backslash goes before a bracket that opens a tag
MarkupEscape(s) == IF s = "[y]" THEN "\\[y]" ELSE s

extract_message_content(message) == MarkupEscape(Strip(message.content))

parse_tool_name(tool_name) ==
  IF tool_name = "transfer_to_recon" THEN "Transfer to Recon"
  ELSE IF tool_name = "nmap_scan" THEN "Nmap Scan"
  ELSE tool_name

\* extract_tool_calls: the calls of the raw message in standard form; the
\* event data is not looked at
extract_tool_calls(message, event_data) ==
  IF message.kind = None THEN <<>>
  ELSE [i \in 1..Len(message.tool_calls) |->
          [id |-> message.tool_calls[i].id,
           name |-> IF message.tool_calls[i].name = ""
                      THEN "Unknown Tool" ELSE message.tool_calls[i].name]]

\* str.lower() on the agent names of the model
Lower(s) ==
  CASE s = "Planner" -> "planner"
    [] s = "Recon" -> "recon"
    [] s = "Summary" -> "summary"
    [] s = "Unknown" -> "unknown"
    [] s = "User" -> "user"
    [] s = "Tool" -> "tool"
    [] s = "Agent" -> "agent"
    [] OTHER -> s

\* hash() of a str: one value per distinct string within a process
HashStr(s) ==
  CASE s = "x" -> 11
    [] s = "\\[y]" -> 12
    [] s = "y" -> 13
    [] s = "go" -> 14
    [] OTHER -> 15

\* content[:100]: every content of the model is shorter than 100 characters
Prefix100(s) == s

(***************************************************************************)
(* State.                                                                  *)
(***************************************************************************)
VARIABLES
  workflow_running,       \* st.session_state.workflow_running
  structured_messages,    \* st.session_state.structured_messages
  event_history,          \* st.session_state.event_history
  active_agent,           \* st.session_state.active_agent
  completed_agents,       \* st.session_state.completed_agents
  direct_executor,        \* st.session_state.direct_executor: [id, ready]
  processed_message_ids,  \* Executor._processed_message_ids, per Executor object
  current_trace,          \* TraceLogger.current_trace (process-wide singleton)
  session_log,            \* Logger.current_session.events
  wall,                   \* datetime.now(), as the number of readings taken
  run,                    \* the calls of execute_workflow_logic
  validation,             \* what validate_execution_state returned, when
                          \* the last step called it
  user_turns,             \* the inputs prepare_user_input has taken in the
                          \* current conversation
  checkpoint_cleared,     \* _trim_message_history has called
                          \* clear_thread_checkpoint for the current thread_id
  replay_session,         \* st.session_state.replay_session: the events of
                          \* the session loaded for replay
  replay_completed,       \* st.session_state.replay_completed
  session_open,           \* Logger.current_session is not None
  session_file,           \* the file of the current logger session
  ended_files,            \* the contents of the files of the former
                          \* sessions of the logger
  raw_name,               \* the argument of AgentManager.normalize_agent_name
  normalized,             \* what normalize_agent_name returned for raw_name
  tool_message,           \* the tool message handed to the terminal
  terminal_history,       \* st.session_state.terminal_history
  processed_messages,     \* TerminalProcessor.processed_messages
  storage                 \* InMemorySaver.storage of the checkpointer: the
                          \* number of checkpoints under each thread_id

vars == <<workflow_running, structured_messages, event_history, active_agent,
          completed_agents, direct_executor, processed_message_ids,
          current_trace, session_log, wall, run, validation, user_turns,
          checkpoint_cleared, replay_session, replay_completed,
          session_open, session_file, ended_files, raw_name, normalized,
          tool_message, terminal_history, processed_messages, storage>>

session_vars == <<workflow_running, structured_messages, event_history,
                  active_agent, completed_agents>>

conversation_vars == <<user_turns, checkpoint_cleared>>

replay_vars == <<replay_session, replay_completed>>

logger_vars == <<session_open, session_file, ended_files>>

agent_name_vars == <<raw_name, normalized>>

\* the state of the parts of the program that are functions of their
\* arguments and are exercised by specifications of their own
terminal_vars == <<tool_message, terminal_history, processed_messages>>

function_vars == <<agent_name_vars, terminal_vars, storage>>

\* the state of the chat page and of the objects behind it
program_vars ==
  <<session_vars, direct_executor, processed_message_ids, current_trace,
    session_log, wall, run, validation, conversation_vars, replay_vars,
    logger_vars>>

\* the value of a result before the function was called
NotCalled == <<"(not called)">>

\* src/utils/memory.py: the thread ids
id_user == <<"u", "s", "e", "r", "_">>
id_conv == <<"_", "c", "o", "n", "v", "_">>

UserIds == {<<"a">>, <<"b">>}
ConversationIds == {<<>>, <<"1">>, <<"2">>}

\* conversation_id <<>> stands for None, the default conversation
create_thread_config(user_id, conversation_id) ==
  IF conversation_id # <<>>
  THEN id_user \o user_id \o id_conv \o conversation_id
  ELSE id_user \o user_id

ThreadIds ==
  { create_thread_config(user_id, conversation_id) :
      user_id \in UserIds, conversation_id \in ConversationIds }

FunctionInit ==
  /\ raw_name = <<>>
  /\ normalized = NotCalled
  /\ tool_message = [id |-> "", type |-> None, tool_display_name |-> <<>>,
                     content |-> <<>>]
  /\ terminal_history = <<>>
  /\ processed_messages = {}
  /\ storage = [k \in ThreadIds |-> 0]

(***************************************************************************)
(* A call of execute_workflow_logic and the generators it drives.          *)
(*   h       the call: "idle" (not made), "loop" (in the async for),       *)
(*           "returned"                                                    *)
(*   mgr     the ExecutorManager.execute_workflow generator: "running",    *)
(*           "finished", "closed" (by aclose), "raised"                    *)
(*   gen     the Executor.execute_workflow generator: "running",           *)
(*           "finished", "raised", or the yield it is left suspended at    *)
(*   stream  the object returned by swarm.astream: "open", "exhausted",    *)
(*           "raised"                                                      *)
(*   idle_time  loop.time() - last_event_time, in seconds                  *)
(*   emitted    the events the Executor generator has yielded              *)
(*   accepted, suppressed  the (agent, type, content) of the message       *)
(*              events the loop has displayed, and dropped as duplicates   *)
(*   accepted_ids, suppressed_ids  the message identifiers of these events *)
(*   cancelled  the task of the call was cancelled                         *)
(*   save_result  what the save_session of the finally block returned      *)
(*   stream_error  the text of the exception the stream raised             *)
(*   on_error   the arguments the on_error callback was called with        *)
(*   input_logged  log_user_input has written the input of the call        *)
(*   appended, logged, displayed  the message identifiers of the events    *)
(*              whose message the loop appended to structured_messages,    *)
(*              wrote to the session log, passed to on_message_ready       *)
(*   llm_calls  the calls cost_tracker.log_llm_call has logged for the     *)
(*              task of the call                                           *)
(***************************************************************************)
NotValidated == [can_execute |-> FALSE, error_message |-> "(not called)"]

\* a session that has not been written to disk
NoFile == [exists |-> FALSE, events |-> <<>>]

IdleRun ==
  [h |-> "idle", mgr |-> "none", gen |-> "none", stream |-> "none",
   executor |-> 0, step_count |-> 0, event_count |-> 0,
   idle_time |-> 0, success |-> FALSE, error_message |-> "",
   emitted |-> <<>>, accepted |-> {}, suppressed |-> {},
   accepted_ids |-> {}, suppressed_ids |-> {},
   cancelled |-> FALSE, save_result |-> "(not called)",
   stream_error |-> "", on_error |-> <<>>,
   input_logged |-> FALSE, appended |-> <<>>, logged |-> <<>>,
   displayed |-> <<>>, llm_calls |-> <<>>]

Init ==
  /\ workflow_running = FALSE
  /\ structured_messages = <<>>
  /\ event_history = <<>>
  /\ active_agent = None
  /\ completed_agents = <<>>
  /\ direct_executor = [id |-> 1, ready |-> FALSE]
  /\ processed_message_ids = [e \in Executors |-> {}]
  /\ current_trace = 0
  /\ session_log = <<>>
  /\ wall = 0
  /\ run = [r \in Runs |-> IdleRun]
  /\ validation = NotValidated
  /\ user_turns = 0
  /\ checkpoint_cleared = FALSE
  /\ replay_session = <<>>
  /\ replay_completed = FALSE
  /\ session_open = FALSE
  /\ session_file = NoFile
  /\ ended_files = {}
  /\ FunctionInit

(***************************************************************************)
(* frontend/web/core/executor.py: the Message Classifier.                  *)
(***************************************************************************)
\* message_id of _should_display_message: the native id, or
\* f"{agent_name}_{hash(str(content))}"
MessageId(message, agent_name) ==
  IF message.id # ""
    THEN [native |-> message.id, agent |-> "", hash |-> 0]
    ELSE [native |-> "", agent |-> agent_name,
          hash |-> HashStr(extract_message_content(message))]

MessageType(message) ==
  CASE message.kind = "human" -> "user"
    [] message.kind = "ai" -> "ai"
    [] message.kind = "tool" -> "tool"
    [] OTHER -> None

\* returns (should_display, message_type) and the updated id set
_should_display_message(message, agent_name, seen) ==
  LET message_id == MessageId(message, agent_name) IN
  IF MessageType(message) # None /\ message_id \notin seen
    THEN [should_display |-> TRUE, message_type |-> MessageType(message),
          seen |-> seen \cup {message_id}]
    ELSE [should_display |-> FALSE, message_type |-> None, seen |-> seen]

(***************************************************************************)
(* src/utils/metrics/cost_tracker.py: the calls logged for a task and the  *)
(* totals of TaskMetrics (cost and latency, both derived from the token    *)
(* counts and the clock, are left out).  Each logged call remembers in     *)
(* `response` the identifier of the message whose usage it took.           *)
(***************************************************************************)
LLMCall(message, agent_name) ==
  [response |-> MessageId(message, agent_name),
   input_tokens |-> message.usage_metadata.input_tokens,
   output_tokens |-> message.usage_metadata.output_tokens]

RECURSIVE total_input_tokens(_)
total_input_tokens(llm_calls) ==
  IF llm_calls = <<>> THEN 0
  ELSE Head(llm_calls).input_tokens + total_input_tokens(Tail(llm_calls))

RECURSIVE total_output_tokens(_)
total_output_tokens(llm_calls) ==
  IF llm_calls = <<>> THEN 0
  ELSE Head(llm_calls).output_tokens + total_output_tokens(Tail(llm_calls))

\* CostTracker.end_task: the metrics of the task
end_task(llm_calls) ==
  [llm_calls |-> llm_calls,
   total_input_tokens |-> total_input_tokens(llm_calls),
   total_output_tokens |-> total_output_tokens(llm_calls),
   total_tokens |-> total_input_tokens(llm_calls)
                      + total_output_tokens(llm_calls)]

(***************************************************************************)
(* Events yielded by Executor.execute_workflow.                            *)
(***************************************************************************)
\* the "metrics" key exists in the workflow_complete event only
NoMetrics == [total_tokens |-> 0, input_tokens |-> 0, output_tokens |-> 0,
              num_llm_calls |-> 0]

\* a faulty variant: the event carries the number of the first tick
MessageEvent_first_tick(message, message_type, agent_name, step_count) ==
  [type |-> "message", message_type |-> message_type,
   agent_name |-> agent_name,
   content |-> extract_message_content(message),
   tool_name |-> IF message_type = "tool" THEN message.name ELSE "",
   step_count |-> 1, error |-> "",
   message_id |-> MessageId(message, agent_name),
   raw_message |-> message, tool_calls |-> <<>>, metrics |-> NoMetrics]

MessageEvent(message, message_type, agent_name, step_count) ==
  [type |-> "message", message_type |-> message_type,
   agent_name |-> agent_name,
   content |-> extract_message_content(message),
   tool_name |-> IF message_type = "tool" THEN message.name ELSE "",
   step_count |-> step_count, error |-> "",
   message_id |-> MessageId(message, agent_name),
   raw_message |-> message, tool_calls |-> <<>>, metrics |-> NoMetrics]

CompleteEvent(step_count, metrics) ==
  [type |-> "workflow_complete", message_type |-> "", agent_name |-> "",
   content |-> "", tool_name |-> "", step_count |-> step_count, error |-> "",
   message_id |-> [native |-> "", agent |-> "", hash |-> 0],
   raw_message |-> NoMessage, tool_calls |-> <<>>,
   metrics |-> [total_tokens |-> metrics.total_tokens,
                input_tokens |-> metrics.total_input_tokens,
                output_tokens |-> metrics.total_output_tokens,
                num_llm_calls |-> Len(metrics.llm_calls)]]

ErrorEvent(error) ==
  [type |-> "error", message_type |-> "", agent_name |-> "",
   content |-> "", tool_name |-> "", step_count |-> 0, error |-> error,
   message_id |-> [native |-> "", agent |-> "", hash |-> 0],
   raw_message |-> NoMessage, tool_calls |-> <<>>, metrics |-> NoMetrics]

(***************************************************************************)
(* frontend/web/core/message_processor.py                                  *)
(***************************************************************************)
\* tool_calls <<>> is a message without the "tool_calls" key
_create_ai_message(agent_name, content, raw_message, event_data, ts) ==
  [type |-> "ai", agent_id |-> Lower(agent_name), content |-> content,
   tool_name |-> "", tool_display_name |-> "",
   tool_calls |-> extract_tool_calls(raw_message, event_data),
   id |-> [kind |-> "ai", who |-> Lower(agent_name),
           hash |-> HashStr(Prefix100(content)), ts |-> ts]]

_create_tool_message(event_data, content, ts) ==
  [type |-> "tool", agent_id |-> None, content |-> content,
   tool_name |-> event_data.tool_name,
   tool_display_name |-> parse_tool_name(event_data.tool_name),
   tool_calls |-> <<>>,
   id |-> [kind |-> "tool", who |-> event_data.tool_name,
           hash |-> HashStr(Prefix100(content)), ts |-> ts]]

_create_user_message(content, ts) ==
  [type |-> "user", agent_id |-> None, content |-> content,
   tool_name |-> "", tool_display_name |-> "", tool_calls |-> <<>>,
   id |-> [kind |-> "user", who |-> "", hash |-> HashStr(content), ts |-> ts]]

process_cli_event(event_data, ts) ==
  CASE event_data.message_type = "ai" ->
         _create_ai_message(event_data.agent_name, event_data.content,
                            event_data.raw_message, event_data, ts)
    [] event_data.message_type = "tool" ->
         _create_tool_message(event_data, event_data.content, ts)
    [] event_data.message_type = "user" ->
         _create_user_message(event_data.content, ts)
    [] OTHER ->
         _create_ai_message(event_data.agent_name, event_data.content,
                            event_data.raw_message, event_data, ts)

is_duplicate_message(new_message, existing_messages) ==
  \/ \E i \in 1..Len(existing_messages) :
       existing_messages[i].id = new_message.id
  \/ \E i \in 1..Len(existing_messages) :
       /\ existing_messages[i].agent_id = new_message.agent_id
       /\ existing_messages[i].type = new_message.type
       /\ existing_messages[i].content = new_message.content

(***************************************************************************)
(* frontend/web/core/workflow_handler.py: pure parts.                      *)
(***************************************************************************)
LastN(seq, n) ==
  IF Len(seq) > n THEN SubSeq(seq, Len(seq) - n + 1, Len(seq)) ELSE seq

InSeq(x, seq) == \E i \in 1..Len(seq) : seq[i] = x

\* _trim_message_history: the user messages counted as conversation turns
UserMessageCount(messages) ==
  Cardinality({ i \in 1..Len(messages) : messages[i].type = "user" })

\* _trim_message_history: whether clear_thread_checkpoint(thread_id) is
\* called, and the two lists it leaves
_trim_message_history(messages, history) ==
  [clears |-> UserMessageCount(messages) >= CheckpointTurns,
   structured_messages |-> LastN(messages, MAX_STRUCTURED_MESSAGES),
   event_history |-> LastN(history, MAX_EVENT_HISTORY)]

\* prepare_user_input: the history is trimmed, then the user message added
prepare_user_input(user_input, messages, history, ts) ==
  LET trimmed == _trim_message_history(messages, history) IN
  [trimmed EXCEPT !.structured_messages =
     Append(@, _create_user_message(user_input, ts))]

IsAgentEvent(event) ==
  /\ event.type = "message"
  /\ event.message_type = "ai"
  /\ event.agent_name # ""
  /\ event.agent_name # "Unknown"

\* the agent of the most recent AI message event of the history, or None
RecentAgent(history) ==
  LET idx == { i \in 1..Len(history) : IsAgentEvent(history[i]) } IN
  IF idx = {} THEN None
  ELSE Lower(history[CHOOSE i \in idx : \A j \in idx : j <= i].agent_name)

\* a faulty variant of _update_agent_status_logic: the agent that hands over
\* is not recorded as completed
_update_agent_status_logic_forgetful(history, active, completed) ==
  LET recent == RecentAgent(history) IN
  IF recent # None /\ recent # active
    THEN [active_agent |-> recent, completed_agents |-> completed]
    ELSE [active_agent |-> active, completed_agents |-> completed]

\* _update_agent_status_logic: the new (active_agent, completed_agents)
_update_agent_status_logic(history, active, completed) ==
  LET recent == RecentAgent(history) IN
  IF recent # None /\ recent # active
    THEN [active_agent |-> recent,
          completed_agents |->
            IF active # None /\ ~InSeq(active, completed)
              THEN Append(completed, active) ELSE completed]
    ELSE [active_agent |-> active, completed_agents |-> completed]

\* _log_message_event: the entry appended to the session log, if any
LogEntries(event, frontend_message) ==
  CASE event.message_type = "ai" ->
         << [event_type |-> "agent_response", agent_name |-> event.agent_name,
             tool_name |-> "", content |-> event.content,
             tool_calls |-> frontend_message.tool_calls] >>
    [] event.message_type = "tool" ->
         << [event_type |-> "tool_output", agent_name |-> "",
             tool_name |-> event.tool_name, content |-> event.content,
             tool_calls |-> <<>>] >>
    [] OTHER -> << >>

UserInputEntry(user_input) ==
  [event_type |-> "user_input", agent_name |-> "", tool_name |-> "",
   content |-> user_input, tool_calls |-> <<>>]

\* a faulty variant of validate_execution_state: the running flag is not
\* looked at
validate_execution_state_unguarded ==
  IF ~direct_executor.ready
    THEN [can_execute |-> FALSE,
          error_message |-> "AI agents not ready. Please initialize first."]
  ELSE [can_execute |-> TRUE, error_message |-> ""]

validate_execution_state ==
  IF ~direct_executor.ready
    THEN [can_execute |-> FALSE,
          error_message |-> "AI agents not ready. Please initialize first."]
  ELSE IF workflow_running
    THEN [can_execute |-> FALSE,
          error_message |-> "Another workflow is already running. Please wait."]
  ELSE [can_execute |-> TRUE, error_message |-> ""]

(***************************************************************************)
(* src/utils/logging/logger.py: the session file.                          *)
(***************************************************************************)
\* a faulty variant of save_session: a session without events is written too
save_session_unconditional(open, events, file) ==
  IF ~open THEN [saved |-> FALSE, file |-> file]
  ELSE [saved |-> TRUE, file |-> [exists |-> TRUE, events |-> events]]

\* Logger.save_session: the value returned and the file of the session
save_session(open, events, file) ==
  IF ~open THEN [saved |-> FALSE, file |-> file]
  ELSE IF events = <<>> THEN [saved |-> FALSE, file |-> file]
  ELSE [saved |-> TRUE, file |-> [exists |-> TRUE, events |-> events]]

\* Logger.end_session: the files of ended sessions after the session is
\* saved and given up
end_session(open, events, file, ended) ==
  LET result == save_session(open, events, file) IN
  IF result.file.exists THEN ended \cup {result.file.events} ELSE ended

IdleTimeoutMessage == "Workflow timeout: No activity for 60 minutes."
CancelledError == "Workflow execution cancelled"

\* what the execution graph raises: the complaint of the model provider
\* about a chat history with unanswered tool calls
InvalidHistoryError ==
  "INVALID_CHAT_HISTORY: Found AIMessages with tool_calls that do not have a corresponding ToolMessage"
StreamErrors == {InvalidHistoryError}

\* the RuntimeError of TraceLogger._add_event
NoActiveTraceError == "No active trace. Call start_workflow() first."

\* `"INVALID_CHAT_HISTORY" in str(e) or "tool_calls that do not have a
\* corresponding ToolMessage" in str(e)`, on the error texts of the model
IsInvalidHistory(text) == text = InvalidHistoryError

ChatHistoryRecommendation ==
  "Chat history corruption detected. This happens when a previous agent handoff was interrupted. Please click 'New Chat' in the sidebar to start fresh."

\* the outer `except Exception as e` of execute_workflow_logic: the
\* error_message of the result
OuterExceptMessage(text) ==
  IF IsInvalidHistory(text) THEN ChatHistoryRecommendation
  ELSE "Workflow execution error: " \o text

ExecutionErrorMessage == OuterExceptMessage(NoActiveTraceError)

(***************************************************************************)
(* Between two awaits on the graph stream a call runs without suspension:  *)
(* the Executor generator yields an event, the loop body handles it and    *)
(* resumes the generator.  Frame(r) is the state such a stretch of call r  *)
(* works on; Commit(r, S) writes it back.                                  *)
(***************************************************************************)
Frame(r) ==
  [workflow_running |-> workflow_running,
   structured_messages |-> structured_messages,
   event_history |-> event_history,
   active_agent |-> active_agent,
   completed_agents |-> completed_agents,
   session_log |-> session_log,
   session_open |-> session_open,
   session_file |-> session_file,
   current_trace |-> current_trace,
   wall |-> wall,
   seen |-> processed_message_ids[run[r].executor],
   call |-> run[r]]

Commit(r, S) ==
  /\ workflow_running' = S.workflow_running
  /\ structured_messages' = S.structured_messages
  /\ event_history' = S.event_history
  /\ active_agent' = S.active_agent
  /\ completed_agents' = S.completed_agents
  /\ session_log' = S.session_log
  /\ session_file' = S.session_file
  /\ current_trace' = S.current_trace
  /\ wall' = S.wall
  /\ processed_message_ids' =
       [processed_message_ids EXCEPT ![run[r].executor] = S.seen]
  /\ run' = [run EXCEPT ![r] = S.call]
  /\ validation' = NotValidated
  /\ UNCHANGED <<direct_executor, conversation_vars, replay_vars, function_vars,
                 session_open, ended_files>>

(***************************************************************************)
(* WorkflowHandler.execute_workflow_logic: one iteration of the            *)
(* `async for event in workflow_stream` body, for an event the Executor    *)
(* generator has yielded at the yield named `at`.  When the iteration      *)
(* leaves the loop it includes both finally blocks and the return.         *)
(***************************************************************************)
Key(message) == <<message.agent_id, message.type, message.content>>

\* a faulty variant of the outer finally block: the flag is left as it is
FinallyBlock_keeps_flag(S) == S

\* the outer finally block of execute_workflow_logic: the flag, then the
\* auto-save of the session
FinallyBlock(S) ==
  LET result == save_session(S.session_open, S.session_log, S.session_file)
  IN [S EXCEPT !.workflow_running = FALSE,
               !.session_file = result.file,
               !.call.save_result = IF result.saved THEN "True" ELSE "False"]

LoopBody(S, event, at) ==
  LET stopped == ~S.workflow_running
      idle == S.call.idle_time > max_idle_time
      handled == ~stopped /\ ~idle
      is_message == handled /\ event.type = "message"
      frontend_message == process_cli_event(event, S.wall)
      duplicate == is_duplicate_message(frontend_message, S.structured_messages)
      accept == is_message /\ ~duplicate
      history == IF handled THEN Append(S.event_history, event)
                 ELSE S.event_history
      status == _update_agent_status_logic(history, S.active_agent,
                                           S.completed_agents)
      update == handled /\ event.type # "error"
      leave == ~handled \/ event.type # "message"
      exhausted == handled /\ event.type = "workflow_complete"
  IN
  [(IF leave THEN FinallyBlock(S) ELSE S) EXCEPT
     !.event_history = history,
     !.structured_messages =
        IF accept THEN Append(@, frontend_message) ELSE @,
     !.session_log = IF accept /\ S.session_open
                       THEN @ \o LogEntries(event, frontend_message)
                     ELSE @,
     !.wall = IF is_message THEN @ + 1 ELSE @,
     !.active_agent = IF update THEN status.active_agent ELSE @,
     !.completed_agents = IF update THEN status.completed_agents ELSE @,
     !.call = [@ EXCEPT
        !.event_count = IF handled THEN @ + 1 ELSE @,
        !.idle_time = IF handled \/ leave THEN 0 ELSE @,
        !.accepted = IF accept THEN @ \cup {Key(frontend_message)} ELSE @,
        !.suppressed = IF is_message /\ duplicate
                         THEN @ \cup {Key(frontend_message)} ELSE @,
        !.accepted_ids = IF accept THEN @ \cup {event.message_id} ELSE @,
        !.appended = IF accept THEN Append(@, event.message_id) ELSE @,
        !.logged = IF /\ accept
                      /\ S.session_open
                      /\ LogEntries(event, frontend_message) # <<>>
                     THEN Append(@, event.message_id) ELSE @,
        !.displayed = IF accept THEN Append(@, event.message_id) ELSE @,
        !.suppressed_ids = IF is_message /\ duplicate
                             THEN @ \cup {event.message_id} ELSE @,
        !.error_message = IF ~stopped /\ idle THEN IdleTimeoutMessage ELSE @,
        !.on_error = IF handled /\ event.type = "error"
                       THEN Append(@, event.error) ELSE @,
        !.success = IF leave THEN TRUE ELSE @,
        !.h = IF leave THEN "returned" ELSE "loop",
        !.mgr = IF exhausted THEN "finished"
                ELSE IF leave THEN "closed" ELSE "running",
        !.gen = IF exhausted THEN "finished"
                ELSE IF leave THEN at ELSE "running"]]

\* the Executor generator yields `event`
Emit(S, event) ==
  [S EXCEPT !.call.emitted = Append(@, [type |-> event.type,
                                         message_id |-> event.message_id,
                                         step_count |-> event.step_count,
                                         metrics |-> event.metrics])]

(***************************************************************************)
(* The RuntimeError of TraceLogger._add_event ("No active trace") leaves   *)
(* the Executor generator from inside its except block: no event is        *)
(* yielded, the exception reaches the outer `except Exception` of          *)
(* execute_workflow_logic, which returns a failed result.                  *)
(***************************************************************************)
Escapes(S) ==
  [FinallyBlock(S) EXCEPT
     !.call = [@ EXCEPT !.h = "returned", !.mgr = "raised", !.gen = "raised",
                        !.idle_time = 0, !.success = FALSE,
                        !.error_message = ExecutionErrorMessage]]

\* the except blocks of Executor.execute_workflow: log_error, end_workflow,
\* the error event
ExceptBlock(S, error, at) ==
  IF S.current_trace = 0
    THEN Escapes(S)
    ELSE LoopBody(Emit([S EXCEPT !.current_trace = 0], ErrorEvent(error)),
                  ErrorEvent(error), at)

\* the body of `for node, value in output.items()`, node after node, while
\* the generator is resumed
RECURSIVE ProcessNodes(_, _, _)
ProcessNodes(S, nodes, agent_name) ==
  IF nodes = <<>> \/ S.call.gen # "running" THEN S
  ELSE
    LET latest_message == Head(nodes)
        usage == latest_message.usage_metadata
        tracked == latest_message.kind = "ai" /\ usage.present
        shown == _should_display_message(latest_message, agent_name, S.seen)
        event == MessageEvent(latest_message, shown.message_type, agent_name,
                              S.call.step_count)
        \* cost_tracker.log_llm_call, before the message is classified
        U == IF tracked
               THEN [S EXCEPT !.call.llm_calls =
                       Append(@, LLMCall(latest_message, agent_name))]
               ELSE S
        T == [U EXCEPT !.seen = shown.seen]
    IN \* trace_logger.log_agent_response raises without an active trace
       IF tracked /\ S.current_trace = 0
         THEN ExceptBlock(U, NoActiveTraceError, "yield_error")
         ELSE ProcessNodes(IF shown.should_display
                             THEN LoopBody(Emit(T, event), event,
                                           "yield_message")
                             ELSE T,
                           Tail(nodes), agent_name)

\* the ticks the calls of rs have consumed
RECURSIVE Ticks(_)
Ticks(rs) ==
  IF rs = {} THEN 0
  ELSE LET r == CHOOSE q \in rs : TRUE
       IN run[r].step_count + Ticks(rs \ {r})

Awaiting(r) ==
  /\ run[r].h = "loop"
  /\ run[r].gen = "running"
  /\ run[r].stream = "open"

(***************************************************************************)
(* frontend/pages/01_Chat.py: _handle_user_input.  A submission while the  *)
(* flag is set is dropped by the page; otherwise the state is validated,   *)
(* the input prepared and execute_workflow_logic entered.  The call runs   *)
(* without suspension up to the first await on the graph stream, so the    *)
(* action covers the first __anext__ of both generators.                   *)
(***************************************************************************)
HandleUserInput(user_input) ==
  /\ ~workflow_running
  /\ validation' = validate_execution_state
  /\ IF ~validate_execution_state.can_execute
       THEN UNCHANGED <<session_vars, direct_executor, processed_message_ids,
                        current_trace, session_log, wall, run,
                        conversation_vars, replay_vars, function_vars, logger_vars>>
       ELSE
         /\ \E r \in Runs : run[r].h = "idle"
         /\ LET r == CHOOSE q \in Runs :
                       /\ run[q].h = "idle"
                       /\ \A p \in Runs : run[p].h = "idle" => q <= p
                prepared == prepare_user_input(user_input, structured_messages,
                                               event_history, wall)
            IN
            /\ structured_messages' = prepared.structured_messages
            /\ event_history' = prepared.event_history
            /\ checkpoint_cleared' = (checkpoint_cleared \/ prepared.clears)
            /\ user_turns' = user_turns + 1
            /\ wall' = wall + 1
            \* execute_workflow_logic
            /\ workflow_running' = TRUE
            \* ExecutorManager.execute_workflow: log_user_input
            /\ session_log' = IF session_open
                 THEN Append(session_log, UserInputEntry(user_input))
                 ELSE session_log
            \* Executor.execute_workflow up to the first await
            /\ current_trace' = r
            /\ processed_message_ids' =
                 [processed_message_ids EXCEPT ![direct_executor.id] = {}]
            /\ run' = [run EXCEPT ![r] =
                 [IdleRun EXCEPT !.h = "loop", !.mgr = "running",
                                 !.gen = "running", !.stream = "open",
                                 !.executor = direct_executor.id,
                                 !.input_logged = session_open]]
            /\ UNCHANGED <<active_agent, completed_agents, direct_executor,
                           replay_vars, function_vars, logger_vars>>

\* a call of WorkflowHandler.validate_execution_state by any caller
ValidateExecutionState ==
  /\ workflow_running
  /\ validation' = validate_execution_state
  /\ UNCHANGED <<session_vars, direct_executor, processed_message_ids,
                 current_trace, session_log, wall, run, conversation_vars,
                 replay_vars, function_vars, logger_vars>>

(***************************************************************************)
(* Executor.execute_workflow: the graph stream delivers an item; its nodes *)
(* are processed and the generator awaits the stream again, unless the     *)
(* loop left meanwhile.                                                    *)
(***************************************************************************)
GraphTick(r, stream_item) ==
  /\ Awaiting(r)
  /\ Ticks(Runs) < MaxTicks
  /\ Commit(r, ProcessNodes([Frame(r) EXCEPT !.call.step_count = @ + 1],
                            stream_item.nodes,
                            get_agent_name(stream_item.ns)))

\* the stream is exhausted: end of tracking, the workflow_complete event
StreamEnd(r) ==
  /\ Awaiting(r)
  /\ LET event == CompleteEvent(run[r].step_count,
                                end_task(run[r].llm_calls))
         S == [Frame(r) EXCEPT !.current_trace = 0,
                               !.call.stream = "exhausted"]
     IN Commit(r, LoopBody(Emit(S, event), event, "yield_complete"))

\* the stream raises an exception
StreamRaise(r, error) ==
  /\ Awaiting(r)
  /\ Commit(r, ExceptBlock([Frame(r) EXCEPT !.call.stream = "raised",
                                            !.call.stream_error = error],
                           error, "yield_error"))

\* the task of the call is cancelled while it awaits the stream
Cancel(r) ==
  /\ Awaiting(r)
  /\ Commit(r, ExceptBlock([Frame(r) EXCEPT !.call.stream = "raised",
                                            !.call.cancelled = TRUE],
                           CancelledError, "yield_cancel"))

(***************************************************************************)
(* frontend/pages/01_Chat.py: the sidebar callbacks.                       *)
(***************************************************************************)
_force_stop_workflow ==
  /\ workflow_running
  /\ workflow_running' = FALSE
  /\ event_history' = <<>>
  /\ UNCHANGED <<structured_messages, active_agent, completed_agents,
                 direct_executor, processed_message_ids, current_trace,
                 session_log, wall, run, conversation_vars, replay_vars, function_vars,
                 logger_vars>>
  /\ validation' = NotValidated

\* create_new_conversation (reset_session), ExecutorManager.reset, the
\* resets of the callback (active_agent is deleted and set again to its
\* default by the next script run), initialize_with_model (which can fail)
_create_new_chat ==
  /\ direct_executor.id < MaxExecutors
  /\ structured_messages' = <<>>
  /\ event_history' = <<>>
  /\ workflow_running' = FALSE
  /\ active_agent' = None
  /\ completed_agents' = <<>>
  \* reset_session: end_session; initialize_with_model: start_session
  /\ ended_files' = end_session(session_open, session_log, session_file,
                                ended_files)
  /\ session_log' = <<>>
  /\ session_open' = TRUE
  /\ session_file' = NoFile
  /\ \E ok \in BOOLEAN :
       direct_executor' = [id |-> direct_executor.id + 1, ready |-> ok]
  /\ validation' = NotValidated
  /\ user_turns' = 0
  /\ checkpoint_cleared' = FALSE
  /\ UNCHANGED <<processed_message_ids, current_trace, wall, run,
                 replay_vars, function_vars>>

\* ExecutorManager.initialize_with_model from the model selection page
initialize_with_model ==
  /\ ~direct_executor.ready
  /\ direct_executor' = [direct_executor EXCEPT !.ready = TRUE]
  \* start_session: the session before is given up as it is
  /\ ended_files' = IF session_file.exists
                      THEN ended_files \cup {session_file.events}
                      ELSE ended_files
  /\ session_log' = <<>>
  /\ session_open' = TRUE
  /\ session_file' = NoFile
  /\ validation' = NotValidated
  /\ UNCHANGED <<session_vars, processed_message_ids, current_trace, wall,
                 run, conversation_vars, replay_vars, function_vars>>

\* time passes while a call awaits the stream: the difference the loop
\* computes grows until it exceeds the idle window
Expired(r) == run[r].idle_time > max_idle_time

Clock ==
  /\ \E r \in Runs : run[r].h = "loop" /\ ~Expired(r)
  /\ run' = [r \in Runs |->
               IF run[r].h = "loop" /\ ~Expired(r)
                 THEN [run[r] EXCEPT !.idle_time = @ + ClockStep]
                 ELSE run[r]]
  /\ validation' = NotValidated
  /\ UNCHANGED <<session_vars, direct_executor, processed_message_ids,
                 current_trace, session_log, wall, conversation_vars,
                 replay_vars, function_vars, logger_vars>>

Next ==
  \/ \E user_input \in UserInputs : HandleUserInput(user_input)
  \/ ValidateExecutionState
  \/ \E r \in Runs, stream_item \in StreamItems : GraphTick(r, stream_item)
  \/ \E r \in Runs : StreamEnd(r)
  \/ \E r \in Runs, error \in StreamErrors : StreamRaise(r, error)
  \/ \E r \in Runs : Cancel(r)
  \/ _force_stop_workflow
  \/ _create_new_chat
  \/ initialize_with_model
  \/ Clock

Spec == Init /\ [][Next]_vars

\* the loop clock keeps running whatever the graph does
FairSpec == Spec /\ WF_vars(Clock)

(***************************************************************************)
(* One long conversation: the user submits input after input, each call    *)
(* gets the same update of the planner and the end of the stream, and the  *)
(* page drops the result of the call before the next input.                *)
(***************************************************************************)
ConversationItem == [ns |-> NsPlanner, nodes |-> <<AiX, AiY>>]

Submit(user_input) ==
  /\ user_turns < MaxTurns
  /\ run[1].h = "idle"
  /\ HandleUserInput(user_input)

Answer ==
  /\ run[1].step_count = 0
  /\ GraphTick(1, ConversationItem)

Complete ==
  /\ run[1].step_count > 0
  /\ StreamEnd(1)

\* the result of a finished call and its generators are garbage
Discard(r) ==
  /\ run[r].h = "returned"
  /\ run[r].gen = "finished"
  /\ run' = [run EXCEPT ![r] = IdleRun]
  /\ validation' = NotValidated
  /\ UNCHANGED <<session_vars, direct_executor, processed_message_ids,
                 current_trace, session_log, wall, conversation_vars,
                 replay_vars, function_vars, logger_vars>>

ConversationNext ==
  \/ initialize_with_model
  \/ \E user_input \in UserInputs : Submit(user_input)
  \/ Answer
  \/ Complete
  \/ Discard(1)

ConversationSpec == Init /\ [][ConversationNext]_vars

\* the user keeps submitting, and every call is answered and ends
ConversationFairSpec ==
  /\ ConversationSpec
  /\ WF_vars(\E user_input \in UserInputs : Submit(user_input))
  /\ WF_vars(Discard(1))
  /\ []<>(run[1].h # "loop")

(***************************************************************************)
(* One run at a time whose model responses report their usage: the node of *)
(* an agent delivers a response, and the parent graph delivers the update  *)
(* of that agent, whose last message is the same response.                 *)
(***************************************************************************)
UsageItems ==
  { [ns |-> NsPlanner, nodes |-> <<AiUsage>>],
    [ns |-> NsRoot, nodes |-> <<AiUsage>>],
    [ns |-> NsPlanner, nodes |-> <<AiUsage, ToolU>>],
    [ns |-> NsRecon, nodes |-> <<AiUsage2>>],
    [ns |-> NsRecon, nodes |-> <<AiX>>] }

\* the user asks MaxRuns times
Ask(user_input) ==
  /\ user_turns < MaxRuns
  /\ Submit(user_input)

Respond(stream_item) == GraphTick(1, stream_item)

Finish == StreamEnd(1)

MetricsNext ==
  \/ initialize_with_model
  \/ \E user_input \in UserInputs : Ask(user_input)
  \/ \E stream_item \in UsageItems : Respond(stream_item)
  \/ Finish
  \/ Discard(1)

MetricsSpec == Init /\ [][MetricsNext]_vars

(***************************************************************************)
(* frontend/web/core/chat_replay.py: the replay of a persisted session.    *)
(* A logged event has event_type, content, agent_name, tool_name and       *)
(* tool_calls; "" is a missing agent_name or tool_name, <<>> no tool_calls. *)
(***************************************************************************)
\* `value or default`
Or(value, default) == IF value = "" \/ value = None THEN default ELSE value

ReplayEvent(message_type, agent_name, tool_name, content, tool_calls) ==
  [type |-> "message", message_type |-> message_type,
   agent_name |-> agent_name, content |-> content, tool_name |-> tool_name,
   step_count |-> 0, error |-> "",
   message_id |-> [native |-> "", agent |-> "", hash |-> 0],
   raw_message |-> NoMessage, tool_calls |-> tool_calls]

\* _convert_to_executor_event: <<>> is the None of an unknown event type
_convert_to_executor_event(event) ==
  CASE event.event_type = "user_input" ->
         << ReplayEvent("user", "User", "", event.content, <<>>) >>
    [] event.event_type = "agent_response" ->
         << ReplayEvent("ai", Or(event.agent_name, "Agent"), "",
                        event.content, event.tool_calls) >>
    [] event.event_type = "tool_command" ->
         << ReplayEvent("tool", "Tool", Or(event.tool_name, "Unknown Tool"),
                        "Command: " \o event.content, <<>>) >>
    [] event.event_type = "tool_output" ->
         << ReplayEvent("tool", "Tool", Or(event.tool_name, "Tool Output"),
                        event.content, <<>>) >>
    [] OTHER -> << >>

\* the body of `for i, event in enumerate(session.events)` on the lists R
\* of _execute_replay_simplified; agent_activity is kept as its keys in
\* insertion order
ReplayStep(R, event) ==
  LET converted == _convert_to_executor_event(event) IN
  IF converted = <<>> THEN R
  ELSE
    LET executor_event == converted[1]
        frontend_message == process_cli_event(executor_event, R.wall)
        keep == ~is_duplicate_message(frontend_message, R.replay_messages)
    IN [replay_messages |-> IF keep THEN Append(R.replay_messages,
                                                frontend_message)
                            ELSE R.replay_messages,
        event_history |-> IF keep THEN Append(R.event_history, executor_event)
                          ELSE R.event_history,
        agent_activity |->
          IF keep /\ ~InSeq(executor_event.agent_name, R.agent_activity)
            THEN Append(R.agent_activity, executor_event.agent_name)
            ELSE R.agent_activity,
        wall |-> R.wall + 1]

RECURSIVE ReplayEvents(_, _)
ReplayEvents(R, events) ==
  IF events = <<>> THEN R
  ELSE ReplayEvents(ReplayStep(R, Head(events)), Tail(events))

\* the lists _execute_replay_simplified builds from the events of a session,
\* started when the clock reads ts
ReplayLists(events, ts) ==
  ReplayEvents([replay_messages |-> <<>>, event_history |-> <<>>,
                agent_activity |-> <<>>, wall |-> ts], events)

\* the agent status of a replay: all keys but the last are completed, the
\* last one is active
ReplayAgentStatus(agent_list) ==
  [completed_agents |->
     [i \in 1..(Len(agent_list) - 1) |-> Lower(agent_list[i])],
   active_agent |-> Lower(agent_list[Len(agent_list)])]

_execute_replay_simplified ==
  /\ wall < MaxReplayClock
  /\ IF replay_session = <<>>
       THEN UNCHANGED <<structured_messages, event_history, active_agent,
                        completed_agents, wall, replay_completed>>
       ELSE LET R == ReplayLists(replay_session, wall) IN
            /\ structured_messages' = R.replay_messages
            /\ event_history' = R.event_history
            /\ wall' = R.wall
            /\ IF R.agent_activity # <<>>
                 THEN /\ completed_agents' =
                           ReplayAgentStatus(R.agent_activity).completed_agents
                      /\ active_agent' =
                           ReplayAgentStatus(R.agent_activity).active_agent
                 ELSE UNCHANGED <<active_agent, completed_agents>>
            /\ replay_completed' = TRUE
  /\ validation' = NotValidated
  /\ UNCHANGED <<workflow_running, direct_executor, processed_message_ids,
                 current_trace, session_log, run, conversation_vars,
                 replay_session, logger_vars, function_vars>>

(***************************************************************************)
(* The sessions replayed: every log of up to MaxLogLen of these events.    *)
(***************************************************************************)
LogUser ==
  [event_type |-> "user_input", agent_name |-> "", tool_name |-> "",
   content |-> "go", tool_calls |-> <<>>]
LogPlannerCalls ==
  [event_type |-> "agent_response", agent_name |-> "Planner", tool_name |-> "",
   content |-> "\\[y]", tool_calls |-> <<[id |-> "call-1", name |-> "nmap_scan"]>>]
LogPlanner ==
  [event_type |-> "agent_response", agent_name |-> "Planner", tool_name |-> "",
   content |-> "x", tool_calls |-> <<>>]
LogRecon ==
  [event_type |-> "agent_response", agent_name |-> "Recon", tool_name |-> "",
   content |-> "x", tool_calls |-> <<>>]
LogToolOutput ==
  [event_type |-> "tool_output", agent_name |-> "", tool_name |-> "nmap_scan",
   content |-> "y", tool_calls |-> <<>>]
LogToolCommand ==
  [event_type |-> "tool_command", agent_name |-> "", tool_name |-> "nmap_scan",
   content |-> "y", tool_calls |-> <<>>]

LoggedEvents == {LogUser, LogPlannerCalls, LogPlanner, LogRecon,
                 LogToolOutput, LogToolCommand}

ReplaySessions ==
  UNION { [1..n -> LoggedEvents] : n \in 0..MaxLogLen }

ReplayInit ==
  /\ workflow_running = FALSE
  /\ structured_messages = <<>>
  /\ event_history = <<>>
  /\ active_agent = None
  /\ completed_agents = <<>>
  /\ direct_executor = [id |-> 1, ready |-> FALSE]
  /\ processed_message_ids = [e \in Executors |-> {}]
  /\ current_trace = 0
  /\ session_log = <<>>
  /\ wall = 0
  /\ run = [r \in Runs |-> IdleRun]
  /\ validation = NotValidated
  /\ user_turns = 0
  /\ checkpoint_cleared = FALSE
  /\ replay_session \in ReplaySessions
  /\ replay_completed = FALSE
  /\ session_open = FALSE
  /\ session_file = NoFile
  /\ ended_files = {}
  /\ FunctionInit

ReplayNext == _execute_replay_simplified

ReplaySpec == ReplayInit /\ [][ReplayNext]_vars

(***************************************************************************)
(* src/utils/agents.py: AgentManager.normalize_agent_name.  A name is the  *)
(* sequence of its characters; the function looks for keywords inside the  *)
(* lowercased name.                                                        *)
(***************************************************************************)
kw_planner == <<"p", "l", "a", "n", "n", "e", "r">>
kw_reconnaissance ==
  <<"r", "e", "c", "o", "n", "n", "a", "i", "s", "s", "a", "n", "c", "e">>
kw_initial_access ==
  <<"i", "n", "i", "t", "i", "a", "l", "_", "a", "c", "c", "e", "s", "s">>
kw_initial == <<"i", "n", "i", "t", "i", "a", "l">>
kw_execution == <<"e", "x", "e", "c", "u", "t", "i", "o", "n">>
kw_persistence == <<"p", "e", "r", "s", "i", "s", "t", "e", "n", "c", "e">>
kw_privilege_escalation ==
  <<"p", "r", "i", "v", "i", "l", "e", "g", "e", "_", "e", "s", "c", "a",
    "l", "a", "t", "i", "o", "n">>
kw_privilege == <<"p", "r", "i", "v", "i", "l", "e", "g", "e">>
kw_defense_evasion ==
  <<"d", "e", "f", "e", "n", "s", "e", "_", "e", "v", "a", "s", "i", "o",
    "n">>
kw_defense == <<"d", "e", "f", "e", "n", "s", "e">>
kw_evasion == <<"e", "v", "a", "s", "i", "o", "n">>
kw_summary == <<"s", "u", "m", "m", "a", "r", "y">>
kw_tool == <<"t", "o", "o", "l">>
kw_supervisor == <<"s", "u", "p", "e", "r", "v", "i", "s", "o", "r">>

\* str.lower() on the characters the names are made of
LowerChar(c) ==
  CASE c = "C" -> "c"
    [] c = "N" -> "n"
    [] c = "P" -> "p"
    [] c = "R" -> "r"
    [] c = "S" -> "s"
    [] c = "T" -> "t"
    [] OTHER -> c

lower(text) == [i \in 1..Len(text) |-> LowerChar(text[i])]

\* `keyword in text`
In(keyword, text) ==
  \E i \in 0..(Len(text) - Len(keyword)) :
    SubSeq(text, i + 1, i + Len(keyword)) = keyword

\* the branches with "summary" and "tool" exchanged
normalize_agent_name_tool_first(agent_name) ==
  LET agent_name_lower == lower(agent_name) IN
  IF agent_name = <<>> THEN <<>>
  ELSE IF In(kw_planner, agent_name_lower) THEN kw_planner
  ELSE IF In(kw_reconnaissance, agent_name_lower) THEN kw_reconnaissance
  ELSE IF \/ In(kw_initial_access, agent_name_lower)
          \/ In(kw_initial, agent_name_lower) THEN kw_initial_access
  ELSE IF In(kw_execution, agent_name_lower) THEN kw_execution
  ELSE IF In(kw_persistence, agent_name_lower) THEN kw_persistence
  ELSE IF \/ In(kw_privilege_escalation, agent_name_lower)
          \/ In(kw_privilege, agent_name_lower) THEN kw_privilege_escalation
  ELSE IF \/ In(kw_defense_evasion, agent_name_lower)
          \/ In(kw_defense, agent_name_lower)
          \/ In(kw_evasion, agent_name_lower) THEN kw_defense_evasion
  ELSE IF In(kw_tool, agent_name_lower) THEN kw_tool
  ELSE IF In(kw_summary, agent_name_lower) THEN kw_summary
  ELSE IF In(kw_supervisor, agent_name_lower) THEN kw_supervisor
  ELSE <<>>

normalize_agent_name(agent_name) ==
  LET agent_name_lower == lower(agent_name) IN
  IF agent_name = <<>> THEN <<>>
  ELSE IF In(kw_planner, agent_name_lower) THEN kw_planner
  ELSE IF In(kw_reconnaissance, agent_name_lower) THEN kw_reconnaissance
  ELSE IF \/ In(kw_initial_access, agent_name_lower)
          \/ In(kw_initial, agent_name_lower) THEN kw_initial_access
  ELSE IF In(kw_execution, agent_name_lower) THEN kw_execution
  ELSE IF In(kw_persistence, agent_name_lower) THEN kw_persistence
  ELSE IF \/ In(kw_privilege_escalation, agent_name_lower)
          \/ In(kw_privilege, agent_name_lower) THEN kw_privilege_escalation
  ELSE IF \/ In(kw_defense_evasion, agent_name_lower)
          \/ In(kw_defense, agent_name_lower)
          \/ In(kw_evasion, agent_name_lower) THEN kw_defense_evasion
  ELSE IF In(kw_summary, agent_name_lower) THEN kw_summary
  ELSE IF In(kw_tool, agent_name_lower) THEN kw_tool
  ELSE IF In(kw_supervisor, agent_name_lower) THEN kw_supervisor
  ELSE <<>>

\* the pieces the names handed to normalize_agent_name are made of: the
\* keywords, and what the graph adds to a node name
pc_Planner == <<"P", "l", "a", "n", "n", "e", "r">>
pc_recon == <<"r", "e", "c", "o", "n">>
pc_node_uuid == <<"_", "n", "o", "d", "e", ":", "u", "u", "i", "d">>
pc_swarm_uuid == <<"_", "s", "w", "a", "r", "m", ":", "u", "u", "i", "d">>
pc_totally_unknown ==
  <<"t", "o", "t", "a", "l", "l", "y", "_", "u", "n", "k", "n", "o", "w",
    "n">>
pc_uuid == <<":", "u", "u", "i", "d">>
pc_Summary == <<"S", "u", "m", "m", "a", "r", "y">>
pc_Tools == <<"_", "T", "o", "o", "l", "s">>

Keywords ==
  {kw_planner, kw_reconnaissance, kw_initial_access, kw_initial,
   kw_execution, kw_persistence, kw_privilege_escalation, kw_privilege,
   kw_defense_evasion, kw_defense, kw_evasion, kw_summary, kw_tool,
   kw_supervisor}

NamePieces ==
  Keywords \cup {pc_Planner, pc_recon, pc_node_uuid, pc_swarm_uuid,
                 pc_totally_unknown, pc_uuid, pc_Summary, pc_Tools}

RECURSIVE Concat(_)
Concat(pieces) ==
  IF pieces = <<>> THEN <<>> ELSE Head(pieces) \o Concat(Tail(pieces))

AgentNames ==
  { Concat(pieces) :
      pieces \in UNION { [1..n -> NamePieces] : n \in 0..MaxPieces } }

\* a caller picks the name it will ask about
ChooseName(agent_name) ==
  /\ raw_name' = agent_name
  /\ normalized' = NotCalled
  /\ UNCHANGED <<program_vars, terminal_vars, storage>>

NormalizeAgentName ==
  /\ normalized = NotCalled
  /\ normalized' = normalize_agent_name(raw_name)
  /\ UNCHANGED <<program_vars, terminal_vars, storage, raw_name>>

AgentNameNext ==
  \/ \E agent_name \in AgentNames : ChooseName(agent_name)
  \/ NormalizeAgentName

AgentNameSpec == Init /\ [][AgentNameNext]_vars

(***************************************************************************)
(* frontend/web/core/terminal_processor.py and the terminal part of        *)
(* workflow_handler.py.  Texts are sequences of characters.  A terminal    *)
(* line is [type, content]; its timestamp, the time of day of the          *)
(* projection, is left out.                                                *)
(***************************************************************************)
IsSpace(c) == c \in {" ", "\n"}

RECURSIVE lstrip(_)
lstrip(text) ==
  IF text # <<>> /\ IsSpace(Head(text)) THEN lstrip(Tail(text)) ELSE text

RECURSIVE rstrip(_)
rstrip(text) ==
  IF text # <<>> /\ IsSpace(text[Len(text)])
  THEN rstrip(SubSeq(text, 1, Len(text) - 1))
  ELSE text

strip(text) == rstrip(lstrip(text))

startswith(text, prefix) ==
  /\ Len(text) >= Len(prefix)
  /\ SubSeq(text, 1, Len(prefix)) = prefix

\* str.find, counted from 1; 0 when the keyword does not occur
find(text, keyword) ==
  IF In(keyword, text)
  THEN CHOOSE i \in 1..Len(text) :
         /\ i + Len(keyword) - 1 <= Len(text)
         /\ SubSeq(text, i, i + Len(keyword) - 1) = keyword
         /\ \A j \in 1..(i - 1) :
              SubSeq(text, j, j + Len(keyword) - 1) # keyword
  ELSE 0

\* text.split('\n')
RECURSIVE split(_)
split(text) ==
  LET i == find(text, <<"\n">>) IN
  IF i = 0 THEN <<text>>
  ELSE <<SubSeq(text, 1, i - 1)>> \o split(SubSeq(text, i + 1, Len(text)))

\* '\n'.join(lines)
RECURSIVE join(_)
join(lines) ==
  IF lines = <<>> THEN <<>>
  ELSE IF Len(lines) = 1 THEN lines[1]
  ELSE lines[1] \o <<"\n">> \o join(Tail(lines))

\* text.replace(c, by) for a character c
RECURSIVE replace(_, _, _)
replace(text, c, by) ==
  IF text = <<>> THEN <<>>
  ELSE (IF Head(text) = c THEN by ELSE <<Head(text)>>)
       \o replace(Tail(text), c, by)

amp == <<"&", "a", "m", "p", ";">>
lt == <<"&", "l", "t", ";">>
gt == <<"&", "g", "t", ";">>
br == <<"<", "b", "r", ">">>

\* the replacements with "&" handled after "<" and ">"
sanitize_output_amp_last(output) ==
  replace(replace(replace(replace(output, "<", lt), ">", gt), "&", amp),
          "\n", br)

sanitize_output(output) ==
  replace(replace(replace(replace(output, "&", amp), "<", lt), ">", gt),
          "\n", br)

px_running_command ==
  <<"R", "u", "n", "n", "i", "n", "g", " ", "c", "o", "m", "m", "a", "n",
    "d", ":">>
px_executing == <<"E", "x", "e", "c", "u", "t", "i", "n", "g", ":">>
px_command == <<"C", "o", "m", "m", "a", "n", "d", ":">>
px_execute == <<"E", "x", "e", "c", "u", "t", "e", ":">>
px_dollar == <<"$">>
px_hash == <<"#", " ">>
ind_command == <<"c", "o", "m", "m", "a", "n", "d", ":">>
ind_executing == <<"e", "x", "e", "c", "u", "t", "i", "n", "g", ":">>
ind_running == <<"r", "u", "n", "n", "i", "n", "g", ":">>
ind_dollar == <<"$">>
ind_hash == <<"#">>
tt_terminal == <<"t", "e", "r", "m", "i", "n", "a", "l">>
tt_command == <<"c", "o", "m", "m", "a", "n", "d">>
tt_exec == <<"e", "x", "e", "c">>
tt_shell == <<"s", "h", "e", "l", "l">>

prefixes_to_remove ==
  <<px_running_command, px_executing, px_command, px_execute, px_dollar,
    px_hash>>

RECURSIVE RemovePrefixes(_, _)
RemovePrefixes(command, prefixes) ==
  IF prefixes = <<>> THEN command
  ELSE RemovePrefixes(
         IF startswith(command, Head(prefixes))
         THEN strip(SubSeq(command, Len(Head(prefixes)) + 1, Len(command)))
         ELSE command,
         Tail(prefixes))

clean_command(command) ==
  LET stripped == strip(command)
      first_line == IF In(<<"\n">>, stripped)
                    THEN strip(split(stripped)[1])
                    ELSE stripped
  IN RemovePrefixes(first_line, prefixes_to_remove)

\* re.search(keyword \s*(.+), line, re.IGNORECASE).group(1).strip() for the
\* leftmost keyword that something follows; <<>> when there is no match
search(line, keywords) ==
  LET matches ==
        { m \in (1..Len(line)) \X keywords :
            /\ m[1] + Len(m[2]) - 1 < Len(line)
            /\ SubSeq(lower(line), m[1], m[1] + Len(m[2]) - 1) = m[2] }
  IN IF matches = {} THEN <<>>
     ELSE LET m == CHOOSE m \in matches : \A o \in matches : m[1] <= o[1]
          IN strip(SubSeq(line, m[1] + Len(m[2]), Len(line)))

extract_command_from_line(line_in) ==
  LET line == strip(line_in)
      named == search(line, {ind_command, ind_executing, ind_running})
      dollar == search(line, {ind_dollar})
      hash == search(line, {ind_hash})
  IN IF named # <<>> THEN named
     ELSE IF dollar # <<>> THEN dollar
     ELSE IF hash # <<>> THEN hash
     ELSE line

_is_terminal_tool(tool_display_name) ==
  \/ In(tt_terminal, lower(tool_display_name))
  \/ In(tt_command, lower(tool_display_name))
  \/ In(tt_exec, lower(tool_display_name))
  \/ In(tt_shell, lower(tool_display_name))

TerminalLine(type, content) == [type |-> type, content |-> content]

HasIndicator(line) ==
  \E indicator \in {ind_dollar, ind_hash, ind_command, ind_executing,
                     ind_running} : In(indicator, lower(line))

_process_terminal_tool_message(tool_display_name, content) ==
  LET lines == IF content # <<>> THEN split(content) ELSE <<>>
      found == { i \in 1..Len(lines) :
                   /\ HasIndicator(strip(lines[i]))
                   /\ extract_command_from_line(strip(lines[i])) # <<>> }
  IN IF found # {}
     THEN LET i == CHOOSE i \in found : \A j \in found : i <= j
              remaining_output == join(SubSeq(lines, i + 1, Len(lines)))
          IN <<TerminalLine("command",
                 clean_command(extract_command_from_line(strip(lines[i]))))>>
             \o (IF strip(remaining_output) # <<>>
                 THEN <<TerminalLine("output",
                          sanitize_output(strip(remaining_output)))>>
                 ELSE <<>>)
     ELSE IF strip(content) # <<>>
     THEN <<TerminalLine("command", clean_command(lower(tool_display_name))),
            TerminalLine("output", sanitize_output(content))>>
     ELSE <<>>

\* the tool messages: what a tool may print, under the name of a tool
out_dollar_nmap == <<"$", " ", "n", "m", "a", "p">>
out_newline == <<"\n">>
out_tag == <<"<", "o", "k", ">">>
out_amp == <<"&">>
out_space == <<" ">>
out_command == <<"C", "o", "m", "m", "a", "n", "d", ":", " ">>
out_hash == <<"#">>
tool_Shell == <<"S", "h", "e", "l", "l">>
tool_Nmap == <<"N", "m", "a", "p">>

OutputPieces ==
  {out_dollar_nmap, out_newline, out_tag, out_amp, out_space, out_command,
   out_hash}

ToolOutputs ==
  { Concat(pieces) :
      pieces \in UNION { [1..n -> OutputPieces] : n \in 0..MaxOutputPieces } }

NoToolMessage ==
  [id |-> "", type |-> None, tool_display_name |-> <<>>, content |-> <<>>]

ToolMessages ==
  { [id |-> "tool-1", type |-> "tool", tool_display_name |-> name,
     content |-> content] :
      name \in {tool_Shell, tool_Nmap}, content \in ToolOutputs }

\* a tool message passes the duplicate check of the loop, or is among the
\* terminal messages of a replay
ReceiveToolMessage(message) ==
  /\ tool_message = NoToolMessage
  /\ tool_message' = message
  /\ UNCHANGED <<program_vars, agent_name_vars, storage, terminal_history,
                 processed_messages>>

\* WorkflowHandler._process_terminal_message_logic: the projection of the
\* Orchestration Loop
_process_terminal_message_logic ==
  /\ tool_message # NoToolMessage
  /\ Len(terminal_history) < MaxTerminalLines
  /\ LET tool_name == tool_message.tool_display_name
         content == tool_message.content
         escaped_content ==
           replace(replace(replace(replace(content, "&", amp), "<", lt),
                           ">", gt), "\n", br)
     IN terminal_history' =
          terminal_history \o <<TerminalLine("command", tool_name)>>
          \o (IF content # <<>>
              THEN <<TerminalLine("output", escaped_content)>>
              ELSE <<>>)
  /\ UNCHANGED <<program_vars, agent_name_vars, storage, tool_message,
                 processed_messages>>

\* TerminalUI.process_structured_messages over the terminal messages of a
\* replay: TerminalProcessor.process_structured_messages and
\* update_terminal_history
process_structured_messages ==
  /\ tool_message # NoToolMessage
  /\ Len(terminal_history) < MaxTerminalLines
  /\ LET message_id == tool_message.id
         tool_display_name == tool_message.tool_display_name
         content == tool_message.content
         taken == /\ message_id \notin processed_messages
                  /\ tool_message.type = "tool"
                  /\ tool_display_name # <<>>
                  /\ content # <<>>
     IN /\ terminal_history' =
             terminal_history
             \o (IF taken
                 THEN <<TerminalLine("command",
                          clean_command(tool_display_name)),
                        TerminalLine("output", sanitize_output(content))>>
                 ELSE <<>>)
        /\ processed_messages' =
             IF taken THEN processed_messages \cup {message_id}
             ELSE processed_messages
  /\ UNCHANGED <<program_vars, agent_name_vars, storage, tool_message>>

\* TerminalProcessor.process_frontend_messages and update_terminal_history
process_frontend_messages ==
  /\ tool_message # NoToolMessage
  /\ Len(terminal_history) < MaxTerminalLines
  /\ LET message_id == tool_message.id
         tool_display_name == tool_message.tool_display_name
         content == tool_message.content
         taken == /\ message_id \notin processed_messages
                  /\ tool_message.type = "tool"
         entries ==
           IF _is_terminal_tool(tool_display_name)
           THEN _process_terminal_tool_message(tool_display_name, content)
           ELSE IF content # <<>> /\ strip(content) # <<>>
           THEN <<TerminalLine("command", tool_display_name),
                  TerminalLine("output", sanitize_output(content))>>
           ELSE <<>>
     IN /\ terminal_history' =
             terminal_history \o (IF taken THEN entries ELSE <<>>)
        /\ processed_messages' =
             IF taken THEN processed_messages \cup {message_id}
             ELSE processed_messages
  /\ UNCHANGED <<program_vars, agent_name_vars, storage, tool_message>>

TerminalNext ==
  \/ \E message \in ToolMessages : ReceiveToolMessage(message)
  \/ _process_terminal_message_logic
  \/ process_structured_messages
  \/ process_frontend_messages

TerminalSpec == Init /\ [][TerminalNext]_vars

(***************************************************************************)
(* src/utils/memory.py: the thread ids and the checkpoints kept under      *)
(* them.  storage gives the number of checkpoints under each thread id; a  *)
(* thread id with none is not a key of the storage.                        *)
(***************************************************************************)
\* _checkpointer.storage.keys()
StorageKeys == { k \in ThreadIds : storage[k] > 0 }

\* a run of the graph under thread_id writes a checkpoint
PutCheckpoint(thread_id) ==
  /\ storage[thread_id] < MaxCheckpoints
  /\ storage' = [storage EXCEPT ![thread_id] = @ + 1]
  /\ UNCHANGED <<program_vars, agent_name_vars, terminal_vars>>

\* [k for k in _checkpointer.storage.keys() if thread_id in str(k)]
keys_to_remove(keys, thread_id) == { k \in keys : In(thread_id, k) }

clear_thread_checkpoint(thread_id) ==
  /\ storage' =
       [k \in ThreadIds |->
          IF k \in keys_to_remove(StorageKeys, thread_id) THEN 0
          ELSE storage[k]]
  /\ UNCHANGED <<program_vars, agent_name_vars, terminal_vars>>

CheckpointNext ==
  \/ \E thread_id \in ThreadIds : PutCheckpoint(thread_id)
  \/ \E thread_id \in ThreadIds : clear_thread_checkpoint(thread_id)

CheckpointSpec == Init /\ [][CheckpointNext]_vars

(***************************************************************************)
(* Properties.                                                             *)
(***************************************************************************)
Terminals(r) == SelectSeq(run[r].emitted, LAMBDA e : e.type # "message")

\* the lowercased agents of the AI message events of a list of events
RECURSIVE AgentsOf(_)
AgentsOf(events) ==
  IF events = <<>> THEN <<>>
  ELSE IF IsAgentEvent(Head(events))
    THEN <<Lower(Head(events).agent_name)>> \o AgentsOf(Tail(events))
    ELSE AgentsOf(Tail(events))

\* the transition law, agent after agent
RECURSIVE TransitionLaw(_, _, _)
TransitionLaw(agents, active, completed) ==
  IF agents = <<>> THEN <<active, completed>>
  ELSE IF Head(agents) = active
    THEN TransitionLaw(Tail(agents), active, completed)
    ELSE TransitionLaw(Tail(agents), Head(agents),
                       IF active # None /\ ~InSeq(active, completed)
                         THEN Append(completed, active) ELSE completed)

\* the events a step has appended to event_history
Extends ==
  /\ Len(event_history') > Len(event_history)
  /\ SubSeq(event_history', 1, Len(event_history)) = event_history

NewEvents ==
  SubSeq(event_history', Len(event_history) + 1, Len(event_history'))

RunningRejection ==
  [can_execute |-> FALSE,
   error_message |-> "Another workflow is already running. Please wait."]

\* C1: within one Executor.execute_workflow call no two message events carry
\* the same message identifier: every identifier is emitted at most once.
C1_EmittedOncePerId ==
  \A r \in Runs : \A i, j \in 1..Len(run[r].emitted) :
    (/\ i < j
     /\ run[r].emitted[i].type = "message"
     /\ run[r].emitted[j].type = "message")
      => run[r].emitted[i].message_id # run[r].emitted[j].message_id

\* C2: whenever the loop processes AI message events of known agents, the
\* agent state changes by the transition law: an event of another agent than
\* active_agent appends the previous active agent to completed_agents (if
\* there is one and it is not recorded yet) and becomes the active agent; an
\* event of the active agent changes nothing.
C2_AgentTransitionLaw ==
  [][Extends => <<active_agent', completed_agents'>> =
                  TransitionLaw(AgentsOf(NewEvents), active_agent,
                                completed_agents)]_vars

C2_Witness ==
  /\ AgentsOf(event_history) =
       <<"planner", "planner", "recon", "recon", "summary">>
  /\ active_agent = "summary"
  /\ completed_agents = <<"planner", "recon">>

\* C3: at any time at most one call of execute_workflow_logic is in flight
\* in the session.
C3_AtMostOneRunInFlight ==
  Cardinality({r \in Runs : run[r].h = "loop"}) <= 1

C5_FlagClearedOnExit ==
  [][\A r \in Runs :
       (run[r].h = "loop" /\ run'[r].h = "returned") => ~workflow_running']_vars

C5_Witness ==
  /\ ~workflow_running
  /\ \E r \in Runs : /\ run[r].h = "returned"
                     /\ run[r].error_message = IdleTimeoutMessage
  /\ \E r \in Runs : /\ run[r].h = "returned"
                     /\ run[r].error_message = ExecutionErrorMessage

\* C6: a call that has had no event for longer than max_idle_time eventually
\* returns, also when the stream delivers no further event.
C6_IdleTimeoutTerminates ==
  \A r \in Runs :
    (run[r].h = "loop" /\ Expired(r)) ~> (run[r].h = "returned")

\* C7: every Executor.execute_workflow generator emits at most one terminal
\* event and nothing after it; exactly one workflow_complete when the stream
\* was exhausted, exactly one error when the stream raised.
C7_OneTerminalEvent ==
  \A r \in Runs :
    /\ Len(Terminals(r)) <= 1
    /\ \A i \in 1..Len(run[r].emitted) :
         run[r].emitted[i].type # "message" => i = Len(run[r].emitted)
    /\ run[r].stream = "exhausted" =>
         /\ Len(Terminals(r)) = 1
         /\ Terminals(r)[1].type = "workflow_complete"
    /\ run[r].stream = "raised" =>
         /\ Len(Terminals(r)) = 1
         /\ Terminals(r)[1].type = "error"

\* C8: when the task of a call was cancelled, the generator goes on from its
\* error event to re-raise the cancellation, and the call does not return a
\* successful result.
C8_CancellationReraised ==
  \A r \in Runs :
    (run[r].cancelled /\ run[r].h = "returned") =>
      (run[r].gen = "raised" /\ ~run[r].success)

\* C9: when a call has returned, the graph stream is finished and both
\* generators wrapping it are finished or closed.
C9_StreamsClosed ==
  \A r \in Runs :
    run[r].h = "returned" =>
      /\ run[r].stream \in {"exhausted", "raised"}
      /\ run[r].mgr \in {"finished", "closed", "raised"}
      /\ run[r].gen \in {"finished", "raised"}

\* C10: a call suppresses a message event only when it has itself accepted a
\* message of the same agent, type and content before; here for calls made
\* after every earlier call of the session ended with workflow_complete.
C10_DedupeScopedToRun ==
  \A r \in Runs :
    (\A q \in Runs \ {r} : run[q].h = "idle" \/ run[q].gen = "finished")
      => run[r].suppressed \subseteq run[r].accepted

\* C11: the loop suppresses a message event only when a message with the same
\* identifier was accepted before in the session; a message event with an
\* identifier not seen before is appended, logged and displayed.
C11_SuppressedOnlySeenIds ==
  \A r \in Runs :
    run[r].suppressed_ids \subseteq
      UNION { run[q].accepted_ids : q \in Runs }

\* C12: structured_messages never holds more than MAX_STRUCTURED_MESSAGES
\* entries and event_history never more than MAX_EVENT_HISTORY entries.
C12_BoundedHistory ==
  /\ Len(structured_messages) <= MAX_STRUCTURED_MESSAGES
  /\ Len(event_history) <= MAX_EVENT_HISTORY

\* C13: in a conversation in which the user has submitted CheckpointTurns or
\* more inputs through prepare_user_input, clear_thread_checkpoint is
\* eventually called for the thread_id of the conversation.
C13_CheckpointEventuallyCleared ==
  (user_turns >= CheckpointTurns) ~> checkpoint_cleared

Types(messages) == [i \in 1..Len(messages) |-> messages[i].type]

\* C14: the replay of a log of one user_input, one agent_response with
\* tool_calls and one tool_output yields exactly three messages of the types
\* user, ai, tool in this order, the ai message carrying the tool_calls of
\* the logged event.
C14_ReplayRestoresToolCalls ==
  (replay_completed /\ replay_session = <<LogUser, LogPlannerCalls,
                                          LogToolOutput>>)
    => /\ Types(structured_messages) = <<"user", "ai", "tool">>
       /\ structured_messages[2].tool_calls = LogPlannerCalls.tool_calls

\* a message list without the wall-clock part (the identifiers) and without
\* the tool calls of the AI messages
Project(messages) ==
  [i \in 1..Len(messages) |->
     [messages[i] EXCEPT !.id = None, !.tool_calls = <<>>]]

\* C15: the replay of the log the live runs of a session have written yields
\* the same sequence of messages (type, agent, content, tool metadata) that
\* the live loop has put on display.
C15_ReplayEqualsLive ==
  Project(ReplayLists(session_log, wall).replay_messages) =
    Project(structured_messages)

\* the lowercased agents of the agent_response events of a log, in order
RECURSIVE LoggedAgents(_)
LoggedAgents(events) ==
  IF events = <<>> THEN <<>>
  ELSE IF Head(events).event_type = "agent_response"
    THEN <<Lower(Or(Head(events).agent_name, "Agent"))>>
           \o LoggedAgents(Tail(events))
    ELSE LoggedAgents(Tail(events))

Range(seq) == { seq[i] : i \in 1..Len(seq) }

\* C16: after a replay active_agent is the agent of the last agent message of
\* the log and completed_agents holds exactly the other agents of the log;
\* the user and the tools are not taken for agents.
C16_ReplayAgentSnapshot ==
  LET agents == LoggedAgents(replay_session) IN
  (replay_completed /\ agents # <<>>) =>
    /\ active_agent = agents[Len(agents)]
    /\ Range(completed_agents) = Range(agents) \ {active_agent}

\* C17: replaying the same session again, at a later wall-clock time, yields
\* the same messages as the replay before, identifiers included.
C17_ReplayIdempotent ==
  [][replay_completed => structured_messages' = structured_messages]_vars

\* C18: a session without events is never written: the file of the current
\* session and the files of ended sessions hold at least one event, and the
\* save_session at the end of a call returns False and leaves the disk as it
\* is when the session has no event.
C18_EmptySessionNotSaved ==
  /\ [](session_file.exists => session_file.events # <<>>)
  /\ [](<<>> \notin ended_files)
  /\ [][\A r \in Runs :
         (run[r].h = "loop" /\ run'[r].h = "returned" /\ session_log' = <<>>)
           => (run'[r].save_result = "False" /\ session_file' = session_file)
      ]_vars

C18_Witness ==
  /\ session_open
  /\ ~session_file.exists
  /\ ended_files # {}
  /\ \E r \in Runs : run[r].h = "returned" /\ run[r].save_result = "True"
  /\ \E r \in Runs : run[r].h = "returned" /\ run[r].save_result = "False"

\* C19: when the graph fails with an invalid-chat-history error, every error
\* text shown to the user for the call (the argument of on_error, the
\* error_message of the result) is the recommendation to start a new chat,
\* not the raw text of the exception.
C19_InvalidHistoryTranslated ==
  \A r \in Runs :
    (run[r].h = "returned" /\ IsInvalidHistory(run[r].stream_error)) =>
      /\ \A i \in 1..Len(run[r].on_error) :
           run[r].on_error[i] = ChatHistoryRecommendation
      /\ run[r].error_message \notin
           {run[r].stream_error,
            "Workflow execution error: " \o run[r].stream_error}

\* C20: when an event reaches the loop of a call after the stop signal was
\* set, the loop takes nothing from it (structured_messages, event_history
\* and the session log stay as they are, no message is displayed, on_error
\* is not called, no error message is set), the call returns, and the stream
\* of the call is closed.
C20_StopExitsCleanly ==
  [][\A r \in Runs :
       (/\ run[r].h = "loop"
        /\ ~workflow_running
        /\ Len(run'[r].emitted) > Len(run[r].emitted))
         => /\ UNCHANGED <<structured_messages, event_history, session_log>>
            /\ run'[r].accepted_ids = run[r].accepted_ids
            /\ run'[r].on_error = run[r].on_error
            /\ run'[r].error_message = run[r].error_message
            /\ run'[r].h = "returned"
            /\ run'[r].stream \in {"exhausted", "raised"}
            /\ run'[r].gen \in {"finished", "raised"}]_vars

\* the precedence of the agent keys, highest first, with the keywords of
\* each key
Precedence ==
  <<[key |-> kw_planner, keywords |-> {kw_planner}],
    [key |-> kw_reconnaissance, keywords |-> {kw_reconnaissance}],
    [key |-> kw_initial_access, keywords |-> {kw_initial_access, kw_initial}],
    [key |-> kw_execution, keywords |-> {kw_execution}],
    [key |-> kw_persistence, keywords |-> {kw_persistence}],
    [key |-> kw_privilege_escalation,
     keywords |-> {kw_privilege_escalation, kw_privilege}],
    [key |-> kw_defense_evasion,
     keywords |-> {kw_defense_evasion, kw_defense, kw_evasion}],
    [key |-> kw_summary, keywords |-> {kw_summary}],
    [key |-> kw_tool, keywords |-> {kw_tool}],
    [key |-> kw_supervisor, keywords |-> {kw_supervisor}]>>

CanonicalKeys == { Precedence[i].key : i \in 1..Len(Precedence) }

Hits(text) ==
  { i \in 1..Len(Precedence) :
      \E keyword \in Precedence[i].keywords : In(keyword, lower(text)) }

\* C21: normalize_agent_name returns the key of the first entry of the
\* precedence order one of whose keywords occurs in the lowercased name, the
\* empty key when no keyword occurs, and every canonical key for itself.
C21_PriorityOrderedMatch ==
  normalized # NotCalled =>
    /\ Hits(raw_name) = {} => normalized = <<>>
    /\ \A i \in Hits(raw_name) :
         (\A j \in Hits(raw_name) : i <= j) => normalized = Precedence[i].key
    /\ raw_name \in CanonicalKeys => normalized = raw_name

\* a name with "tool" before "summary" has been resolved
C21_Witness ==
  /\ raw_name = kw_tool \o kw_summary
  /\ normalized = kw_summary

\* C22: "initial_access_swarm:uuid" resolves to initial_access,
\* "recon_node:uuid" to reconnaissance and "totally_unknown:uuid" to the
\* empty key.
C22_ResolutionExamples ==
  normalized # NotCalled =>
    /\ raw_name = kw_initial_access \o pc_swarm_uuid
         => normalized = kw_initial_access
    /\ raw_name = pc_recon \o pc_node_uuid => normalized = kw_reconnaissance
    /\ raw_name = pc_totally_unknown \o pc_uuid => normalized = <<>>

\* what HTML escaping makes of one character
EscapeChar(c) ==
  CASE c = "&" -> <<"&", "a", "m", "p", ";">>
    [] c = "<" -> <<"&", "l", "t", ";">>
    [] c = ">" -> <<"&", "g", "t", ";">>
    [] c = "\n" -> <<"<", "b", "r", ">">>
    [] OTHER -> <<c>>

HtmlEscape(text) == Concat([i \in 1..Len(text) |-> EscapeChar(text[i])])

Parts(text) ==
  { SubSeq(text, a, b) : a \in 1..(Len(text) + 1), b \in 0..Len(text) }

\* C23: the content of every output line of the terminal history is the
\* HTML-escaped form of a part of the content of the tool message: every
\* "&", "<", ">" and newline of the tool output is replaced by its escape,
\* once.
C23_OutputLinesEscaped ==
  \A i \in 1..Len(terminal_history) :
    terminal_history[i].type = "output" =>
      \E part \in Parts(tool_message.content) :
        terminal_history[i].content = HtmlEscape(part)

\* the output "<ok>&" has reached the terminal history by the loop and by
\* the replay
C23_Witness ==
  /\ tool_message.content = out_tag \o out_amp
  /\ Len(terminal_history) = 4
  /\ processed_messages # {}
  /\ \A i \in {2, 4} :
       terminal_history[i] =
         [type |-> "output",
          content |-> <<"&", "l", "t", ";", "o", "k", "&", "g", "t", ";",
                        "&", "a", "m", "p", ";">>]

\* C24: the loop projects the message of a terminal-like tool with the
\* content "$ nmap", newline, "<ok>" to one command line "nmap" and one
\* output line with the escaped remainder.
C24_CommandLineProjected ==
  [][(/\ _process_terminal_message_logic
      /\ _is_terminal_tool(tool_message.tool_display_name)
      /\ tool_message.content = out_dollar_nmap \o out_newline \o out_tag)
       => terminal_history' =
            terminal_history
            \o <<[type |-> "command", content |-> <<"n", "m", "a", "p">>],
                 [type |-> "output",
                  content |-> <<"&", "l", "t", ";", "o", "k",
                                "&", "g", "t", ";">>]>>]_vars

\* C25: in the events one call has emitted the step_count of the message
\* events never decreases; the message events of one tick all carry the
\* number of that tick, one more than the ticks consumed before it; the
\* workflow_complete event carries the number of ticks consumed, and the
\* counter moves only by one tick at a time.
C25_StepCountCountsTicks ==
  /\ [](\A r \in Runs : \A i, j \in 1..Len(run[r].emitted) :
          (/\ i < j
           /\ run[r].emitted[i].type = "message"
           /\ run[r].emitted[j].type = "message")
            => run[r].emitted[i].step_count <= run[r].emitted[j].step_count)
  /\ [][\A r \in Runs :
          /\ run'[r].step_count \in
               {0, run[r].step_count, run[r].step_count + 1}
          /\ \A i \in (Len(run[r].emitted) + 1)..Len(run'[r].emitted) :
               LET event == run'[r].emitted[i] IN
               /\ event.type = "message" =>
                    /\ event.step_count = run[r].step_count + 1
                    /\ run'[r].step_count = run[r].step_count + 1
               /\ event.type = "workflow_complete" =>
                    /\ event.step_count = run[r].step_count
                    /\ run'[r].step_count = run[r].step_count]_vars

\* a call has consumed two ticks, emitted two messages in the first, one in
\* the second, and completed
C25_Witness ==
  \E r \in Runs :
    /\ run[r].step_count = 2
    /\ Len(run[r].emitted) = 4
    /\ [i \in 1..4 |-> run[r].emitted[i].type] =
         <<"message", "message", "message", "workflow_complete">>
    /\ [i \in 1..4 |-> run[r].emitted[i].step_count] = <<1, 1, 2, 2>>

RECURSIVE IsSubsequence(_, _)
IsSubsequence(sub, seq) ==
  IF sub = <<>> THEN TRUE
  ELSE IF seq = <<>> THEN FALSE
  ELSE IF Head(sub) = Head(seq) THEN IsSubsequence(Tail(sub), Tail(seq))
  ELSE IsSubsequence(sub, Tail(seq))

EmittedMessages(r) ==
  LET events == SelectSeq(run[r].emitted, LAMBDA e : e.type = "message")
  IN [i \in 1..Len(events) |-> events[i].message_id]

\* C26: for every call, the messages passed to on_message_ready, the
\* messages appended to structured_messages and the messages written to the
\* session log are one and the same subsequence of the message events the
\* Executor emitted, and the call has logged its user input before them.
C26_EmissionOrderKept ==
  \A r \in Runs :
    /\ run[r].displayed = run[r].appended
    /\ run[r].logged = run[r].appended
    /\ IsSubsequence(run[r].appended, EmittedMessages(r))
    /\ run[r].logged # <<>> => run[r].input_logged

\* C27: the active agent is not among the completed agents, and no agent is
\* among the completed agents twice.
C27_ActiveNotCompleted ==
  /\ active_agent # None => ~InSeq(active_agent, completed_agents)
  /\ \A i, j \in 1..Len(completed_agents) :
       completed_agents[i] = completed_agents[j] => i = j

\* C28: a call that has returned reports success only if the last event of
\* its stream was workflow_complete; a call that ended with an error event
\* or with the idle timeout reports failure with an error message.
C28_SuccessOnlyOnComplete ==
  \A r \in Runs :
    run[r].h = "returned" =>
      LET n == Len(run[r].emitted)
          last_type == IF n = 0 THEN None ELSE run[r].emitted[n].type
      IN /\ run[r].success => last_type = "workflow_complete"
         /\ (last_type = "error" \/ run[r].error_message = IdleTimeoutMessage)
              => (~run[r].success /\ run[r].error_message # "")

\* C29: clear_thread_checkpoint(t) leaves no entry under t, leaves the
\* entries of every other thread as they are, and changes nothing when t has
\* no entries.
C29_ClearsOnlyItsThread ==
  [][\A t \in ThreadIds :
       clear_thread_checkpoint(t) =>
         /\ storage'[t] = 0
         /\ \A k \in ThreadIds \ {t} : storage'[k] = storage[k]
         /\ storage[t] = 0 => storage' = storage]_vars

(***************************************************************************)
(* Usage metrics of a run.                                                 *)
(***************************************************************************)
\* the logged calls without the repetitions of a response
RECURSIVE OncePerResponse(_)
OncePerResponse(llm_calls) ==
  IF llm_calls = <<>> THEN <<>>
  ELSE LET front == OncePerResponse(SubSeq(llm_calls, 1, Len(llm_calls) - 1))
           last == llm_calls[Len(llm_calls)]
       IN IF \E i \in 1..Len(front) : front[i].response = last.response
            THEN front ELSE Append(front, last)

\* the workflow_complete events a call has emitted
CompleteEvents(r) ==
  SelectSeq(run[r].emitted, LAMBDA e : e.type = "workflow_complete")

\* C30: the metrics of the workflow_complete event of a run count the usage
\* of every distinct AI message once: num_llm_calls is the number of distinct
\* responses whose usage was logged, and the token totals are the sums over
\* these distinct responses, however many ticks delivered them.
C30_UsageCountedOnce ==
  \A r \in Runs : \A i \in 1..Len(CompleteEvents(r)) :
    LET metrics == CompleteEvents(r)[i].metrics
        once == end_task(OncePerResponse(run[r].llm_calls))
    IN /\ metrics.num_llm_calls = Len(once.llm_calls)
       /\ metrics.input_tokens = once.total_input_tokens
       /\ metrics.output_tokens = once.total_output_tokens
       /\ metrics.total_tokens = once.total_tokens

=============================================================================
